---- MODULE Spec2Model ----
(***************************************************************************)
(* Model of semantic_logger.go: the severity levels, the LogPayload record *)
(* with its helpers, and the MultiSemanticLogger fan-out dispatcher.       *)
(*                                                                         *)
(* Strings are sequences of one-character strings, so that formatting and  *)
(* joining are computed and a line break inside a string is visible.       *)
(***************************************************************************)
EXTENDS Integers, Sequences, FiniteSets, TLC

\* ------------------------------------------------------------------ bounds
MaxSinks == 3      \* longest sink list handed to NewMultiSemanticLogger
MaxCustom == 1     \* custom levels reach this far below TRACE and above FATAL
MaxPid == 1        \* process ids os.Getpid may return: 1..MaxPid
MaxNow == 1        \* instants time.Now may return: 1..MaxNow
MaxDepth == 2      \* callers above genStacktrace on the call stack
MaxTags == 2       \* longest argument list of SetTags
MaxFrames == 2     \* longest caller-set Backtrace

\* ------------------------------------------------------- severity levels
TRACE == 0
DEBUG == 1
INFO == 2
WARN == 3
ERROR == 4
FATAL == 5

LogLevels == <<TRACE, DEBUG, INFO, WARN, ERROR, FATAL>>

StdLevels == {LogLevels[k] : k \in 1..Len(LogLevels)}

\* LogLevel is an int: every value is a level, the six named ones and others.
Levels == (TRACE - MaxCustom)..(FATAL + MaxCustom)

LessSevereThanLeq(level, level2) == level <= level2

LessSevereThan(level, level2) == level < level2

LevelString(level) ==
    CASE level = TRACE -> "TRACE"
      [] level = DEBUG -> "DEBUG"
      [] level = INFO -> "INFO"
      [] level = WARN -> "WARN"
      [] level = ERROR -> "ERROR"
      [] level = FATAL -> "FATAL"
      [] OTHER -> "CUSTOM"

\* ---------------------------------------------------------------- strings
NL == "\n"

Digits == <<"0", "1", "2", "3", "4", "5", "6", "7", "8", "9">>

\* The %d verb on a non-negative int: its decimal digits.
RECURSIVE Itoa(_)
Itoa(n) ==
    IF n < 10 THEN <<Digits[n + 1]>>
    ELSE Itoa(n \div 10) \o <<Digits[(n % 10) + 1]>>

\* fmt.Sprintf for the verbs this file uses: %s takes the next operand as it
\* is, %d renders it in decimal; an absent operand renders as %!s(MISSING), with its verb.
RECURSIVE Sprintf(_, _)
Sprintf(format, operands) ==
    IF format = <<>> THEN <<>>
    ELSE IF Head(format) = "%" /\ Len(format) >= 2
    THEN LET verb == format[2]
             rest == SubSeq(format, 3, Len(format))
         IN  IF operands = <<>>
             THEN <<"%", "!", verb, "(", "M", "I", "S", "S", "I", "N", "G", ")">>
                      \o Sprintf(rest, operands)
             ELSE (IF verb = "d" THEN Itoa(Head(operands)) ELSE Head(operands))
                      \o Sprintf(rest, Tail(operands))
    ELSE <<Head(format)>> \o Sprintf(Tail(format), operands)

JoinTrailing(elems, sep) ==
    LET RECURSIVE J(_)
        J(es) == IF es = <<>> THEN <<>> ELSE Head(es) \o sep \o J(Tail(es))
    IN  J(elems)

\* strings.Join: the elements with sep between each two of them.
RECURSIVE Join(_, _)
Join(elems, sep) ==
    IF elems = <<>> THEN <<>>
    ELSE IF Len(elems) = 1 THEN elems[1]
    ELSE elems[1] \o sep \o Join(Tail(elems), sep)

\* ------------------------------------------------------------- call stack
\* A call stack is a sequence of frames, innermost first: stack[1] is the
\* function that asks, stack[skip + 1] the frame runtime.Caller(skip) reports.
RuntimeCaller(stack, skip) ==
    IF skip + 1 <= Len(stack)
    THEN [ok |-> TRUE, file |-> stack[skip + 1].file,
          line |-> stack[skip + 1].line, name |-> stack[skip + 1].fn]
    ELSE [ok |-> FALSE, file |-> <<>>, line |-> 0, name |-> <<>>]

getCallerName(stack, skip) == RuntimeCaller(stack, skip).name

traceLineFormat == <<"%", "s", ":", "%", "d", " ", "%", "s", "(", ")", NL>>

genStacktrace(stack) ==
    LET RECURSIVE Walk(_, _)
        Walk(skip, stacktrace) ==
            LET c == RuntimeCaller(stack, skip)
            IN  IF ~c.ok THEN stacktrace
                ELSE Walk(skip + 1, Append(stacktrace,
                         Sprintf(traceLineFormat, <<c.file, c.line, c.name>>)))
    IN  Walk(1, <<>>)

\* ------------------------------------------------------------- LogPayload
\* The zero value of the struct: every field unset.
ZeroPayload ==
    [Level |-> TRACE, Message |-> <<>>, Action |-> <<>>, Application |-> "",
     PID |-> 0, Time |-> 0, HostName |-> "", Tags |-> <<>>, Name |-> "",
     UUID |-> "", Table |-> "", Backtrace |-> <<>>, Duration |-> 0,
     ThreadName |-> ""]

PayloadFields == DOMAIN ZeroPayload

exceptionFormat ==
    <<"%", "s", " ", "-", "-", " ", "%", "s", ":", " ", "%", "s", NL, "%", "s">>

Exception(payload) ==
    LET backtrace == Join(payload.Backtrace, <<NL>>)
    IN  Sprintf(exceptionFormat,
                <<payload.Message, <<"p", "a", "n", "i", "c">>, payload.Message,
                  backtrace>>)

\* The process's surroundings as setKnownFields reads them: os.Args[0],
\* os.Getpid(), time.Now() and os.Hostname() (hostname "" when it fails).
Envs ==
    [args0 : {"prog"}, pid : 1..MaxPid, now : 1..MaxNow,
     hostname : {"", "host"}]

setKnownFields(payload, env) ==
    [payload EXCEPT
        !.Application = IF payload.Application = "" THEN env.args0
                        ELSE payload.Application,
        !.PID = env.pid,
        !.Time = env.now,
        !.HostName = env.hostname]

SetTagsAppend(payload, tags) == [payload EXCEPT !.Tags = payload.Tags \o tags]

SetTags(payload, tags) == [payload EXCEPT !.Tags = tags]

\* stack[1] is the frame of NewLogPayload's caller: getCallerName runs two
\* frames further in, so its skip of 2 lands on it.
NewLogPayload(level, formatStr, vars, stack) ==
    LET inner == <<[file |-> <<>>, line |-> 0, fn |-> <<"g", "C", "N">>],
                   [file |-> <<>>, line |-> 0, fn |-> <<"N", "L", "P">>]>>
    IN  [ZeroPayload EXCEPT !.Level = level,
                            !.Message = Sprintf(formatStr, vars),
                            !.Action = getCallerName(inner \o stack, 2)]

\* ------------------------------------------------------------------ state
VARIABLES
    ml,       \* the MultiSemanticLogger: its sinks, in insertion order
    payload,  \* the LogPayload the caller holds a pointer to
    env,      \* what the process reads from its surroundings
    pc,       \* where the dispatcher's caller is: idle, loop, after, returned, panicked
    op,       \* the operation in progress, or the last one applied
    level,    \* the level argument of the dispatcher call
    msg,      \* the msg argument of the dispatcher call
    idx,      \* the range loop's position in ml (1-based)
    given,    \* the record as it was when the dispatcher was called
    calls,    \* the calls the dispatcher has made in this dispatch, in order
    raised,   \* the panics that reached the dispatcher's caller
    fRuns,    \* how many times the benchmarked operation f has run
    stack,    \* the call stack a stack walk sees
    args,     \* the arguments of the last record or level operation
    result    \* what that operation returned

vars ==
    <<ml, payload, env, pc, op, level, msg, idx, given, calls, raised, fRuns,
      stack, args, result>>

dispatchVars == <<ml, env, stack, args, result>>

\* ------------------------------------------------------------------ sinks
SinkIds == {"S1", "S2"}

RECURSIVE SeqsUpTo(_, _)
SeqsUpTo(S, n) ==
    IF n = 0 THEN {<<>>}
    ELSE LET shorter == SeqsUpTo(S, n - 1)
         IN  shorter \cup {Append(q, x) : q \in shorter, x \in S}

Msgs == {"m1", "m2"}

\* A sink is any implementation of the SemanticLogger interface. Its Log
\* returns, with or without filling the known fields first, or panics; its
\* BenchmarkInfo runs f or not before it returns, or panics.
LogOutcomes == {"ok", "fin", "panic"}
BenchOutcomes == {"ran", "skipped", "panic"}

SinkPanic(s) == [by |-> s, value |-> "sink failure"]

\* NewMultiSemanticLogger(loggers...): the dispatcher is the argument list.
NewMultiSemanticLogger(loggers) == loggers

callerStack == <<[file |-> <<"f">>, line |-> 1, fn |-> <<"m", "a", "i", "n">>]>>

\* The records a caller builds and hands over: NewLogPayload, then perhaps
\* its own Application.
DispatchPayloads ==
    {[NewLogPayload(INFO, <<"%", "s">>, <<(<<"m">>)>>, callerStack)
         EXCEPT !.Application = app] : app \in {"", "app"}}

Init ==
    /\ ml \in {NewMultiSemanticLogger(l) : l \in SeqsUpTo(SinkIds, MaxSinks)}
    /\ payload \in DispatchPayloads
    /\ env \in Envs
    /\ pc = "idle"
    /\ op = "none"
    /\ level = TRACE
    /\ msg = "m1"
    /\ idx = 1
    /\ given = payload
    /\ calls = <<>>
    /\ raised = <<>>
    /\ fRuns = 0
    /\ stack = <<>>
    /\ args = <<>>
    /\ result = <<>>

\* ------------------------------------------------------------- dispatcher
LogEntersLoopStdOnly(lv) == lv \in {TRACE, DEBUG, INFO, WARN, ERROR, FATAL}

\* Log's switch: the default case falls through to the case of the six
\* named levels, so every level reaches the loop.
LogEntersLoop(lv) == TRUE

\* Fatal's switch has the case of the six named levels and no default.
FatalEntersLoop(lv) == lv \in {TRACE, DEBUG, INFO, WARN, ERROR, FATAL}

Enter(o, lv, m, loops) ==
    /\ pc = "idle"
    /\ op' = o
    /\ level' = lv
    /\ msg' = m
    /\ idx' = 1
    /\ given' = payload
    /\ calls' = <<>>
    /\ raised' = <<>>
    /\ fRuns' = 0
    /\ pc' = IF loops /\ Len(ml) >= 1 THEN "loop" ELSE "after"
    /\ UNCHANGED <<payload, dispatchVars>>

CallLog(lv, m) == Enter("Log", lv, m, LogEntersLoop(lv))

CallFatal(lv, m) == Enter("Fatal", lv, m, FatalEntersLoop(lv))

CallBenchmarkInfo(lv, m) == Enter("BenchmarkInfo", lv, m, TRUE)

\* lgr.Log(payload)
LogCall(lgr, p, out) ==
    <<[sink |-> lgr, method |-> "Log", arg |-> p, did |-> out]>>

BenchCallLogs(lgr, lv, m, out) ==
    <<[sink |-> lgr, method |-> "Log", arg |-> <<lv, m, "f">>, did |-> out]>>

\* lgr.BenchmarkInfo(level, msg, f)
BenchCall(lgr, lv, m, out) ==
    <<[sink |-> lgr, method |-> "BenchmarkInfo", arg |-> <<lv, m, "f">>,
       did |-> out]>>

AfterSinkSwallows(out, lgr) ==
    /\ idx' = idx + 1
    /\ pc' = IF idx + 1 <= Len(ml) THEN "loop" ELSE "after"
    /\ raised' = raised

\* The call returns and the range moves on, or it panics and the panic
\* leaves the dispatcher's method, which has no recover.
AfterSink(out, lgr) ==
    IF out = "panic"
    THEN /\ pc' = "panicked"
         /\ raised' = Append(raised, SinkPanic(lgr))
         /\ idx' = idx
    ELSE /\ idx' = idx + 1
         /\ pc' = IF idx + 1 <= Len(ml) THEN "loop" ELSE "after"
         /\ raised' = raised

\* One turn of the loop of Log or of Fatal.
LogIter(out) ==
    /\ pc = "loop"
    /\ op \in {"Log", "Fatal"}
    /\ calls' = calls \o LogCall(ml[idx], payload, out)
    /\ payload' = IF out = "fin" THEN setKnownFields(payload, env) ELSE payload
    /\ AfterSink(out, ml[idx])
    /\ UNCHANGED <<op, level, msg, given, fRuns, dispatchVars>>

\* One turn of the loop of BenchmarkInfo.
BenchIter(out) ==
    /\ pc = "loop"
    /\ op = "BenchmarkInfo"
    /\ calls' = calls \o BenchCall(ml[idx], level, msg, out)
    /\ fRuns' = IF out = "ran" THEN fRuns + 1 ELSE fRuns
    /\ AfterSink(out, ml[idx])
    /\ UNCHANGED <<payload, op, level, msg, given, dispatchVars>>

PanicValueString(p) == [by |-> "dispatcher", value |-> p.Message]

PanicValue(p) == [by |-> "dispatcher", value |-> p]

\* Fatal's last statement: panic(payload).
FatalPanic ==
    /\ pc = "after"
    /\ op = "Fatal"
    /\ pc' = "panicked"
    /\ raised' = Append(raised, PanicValue(payload))
    /\ UNCHANGED <<payload, op, level, msg, idx, given, calls, fRuns,
                   dispatchVars>>

\* Log and BenchmarkInfo fall off their end.
Return ==
    /\ pc = "after"
    /\ op \in {"Log", "BenchmarkInfo"}
    /\ pc' = "returned"
    /\ UNCHANGED <<payload, op, level, msg, idx, given, calls, raised, fRuns,
                   dispatchVars>>

\* The caller (after a recover, if the call panicked) builds its next record.
NextEvent ==
    /\ pc \in {"returned", "panicked"}
    /\ pc' = "idle"
    /\ payload' \in DispatchPayloads
    /\ given' = payload'
    /\ op' = "none"
    /\ level' = TRACE
    /\ msg' = "m1"
    /\ idx' = 1
    /\ calls' = <<>>
    /\ raised' = <<>>
    /\ fRuns' = 0
    /\ UNCHANGED dispatchVars

Next ==
    \/ \E lv \in Levels, m \in Msgs : CallLog(lv, m)
    \/ \E lv \in Levels, m \in Msgs : CallFatal(lv, m)
    \/ \E lv \in Levels, m \in Msgs : CallBenchmarkInfo(lv, m)
    \/ \E out \in LogOutcomes : LogIter(out)
    \/ \E out \in BenchOutcomes : BenchIter(out)
    \/ FatalPanic
    \/ Return
    \/ NextEvent

Spec == Init /\ [][Next]_vars

\* ------------------------------------------------- dispatcher properties
NoSinkFailed == \A k \in 1..Len(calls) : calls[k].did # "panic"

\* Call k went to sink ml[k], through its method m.
InOrderVia(m) ==
    /\ Len(calls) <= Len(ml)
    /\ \A k \in 1..Len(calls) : calls[k].sink = ml[k] /\ calls[k].method = m

\* What a sink's Log leaves of the record it was handed.
LeftBy(call) ==
    IF call.did = "fin" THEN setKnownFields(call.arg, env) ELSE call.arg

\* Every Log call was handed the caller's record: the first as the caller
\* gave it, each later one as the sink before it left it.
SameRecord ==
    \A k \in 1..Len(calls) :
        calls[k].arg = IF k = 1 THEN given ELSE LeftBy(calls[k - 1])

\* C1: a Log in which no sink fails, at any level (named or custom), calls
\* each sink's Log exactly once with the caller's record, in insertion
\* order, calls no other sink method, and returns normally.
C1_LogReachesEverySinkInOrder ==
    op = "Log" =>
        /\ InOrderVia("Log")
        /\ SameRecord
        /\ (pc = "returned" => Len(calls) = Len(ml) /\ raised = <<>>)
        /\ (pc \in {"after", "returned"} => Len(calls) = Len(ml))
        /\ (NoSinkFailed => pc # "panicked" /\ raised = <<>>)

C1_Witness ==
    /\ op = "Log"
    /\ pc = "returned"
    /\ level \notin StdLevels
    /\ ml = <<"S1", "S2", "S1">>
    /\ Len(calls) = 3
    /\ calls[2].sink = "S2"

\* C2: a Fatal at a named level in which no sink fails calls each sink's
\* Log (never its Fatal) exactly once, in order, and only then panics, once,
\* with the record as the panic value; with no sinks it still panics once.
C2_FatalLogsAllThenPanicsOnce ==
    (op = "Fatal" /\ level \in StdLevels) =>
        /\ InOrderVia("Log")
        /\ SameRecord
        /\ (pc \in {"loop", "after"} => raised = <<>>)
        /\ (pc = "after" => Len(calls) = Len(ml))
        /\ (pc = "panicked" /\ NoSinkFailed =>
               /\ Len(calls) = Len(ml)
               /\ raised = <<[by |-> "dispatcher", value |-> payload]>>
               /\ payload = IF calls = <<>> THEN given
                            ELSE LeftBy(calls[Len(calls)]))

C2_Witness ==
    /\ op = "Fatal"
    /\ level = ERROR
    /\ pc = "panicked"
    /\ NoSinkFailed
    /\ ml = <<"S1", "S2", "S2">>
    /\ Len(calls) = 3
    /\ Len(raised) = 1

\* C3: at every level, custom ones included, when Fatal's own panic begins
\* every registered sink has already been handed the record through Log,
\* exactly once.
C3_FatalNotifiesAtEveryLevel ==
    (op = "Fatal" /\ pc = "panicked" /\ NoSinkFailed) =>
        /\ Len(calls) = Len(ml)
        /\ InOrderVia("Log")

\* C4: Log isolates no failure: when the Log of the k-th sink panics, the
\* sinks before it have each been called once, the sinks after it are not
\* called, and that sink's panic value reaches the caller unchanged.
C4_LogPropagatesSinkPanic ==
    op = "Log" =>
        /\ InOrderVia("Log")
        /\ \A k \in 1..Len(calls) :
               calls[k].did = "panic" =>
                   /\ k = Len(calls)
                   /\ pc = "panicked"
                   /\ raised = <<SinkPanic(ml[k])>>
        /\ (pc = "panicked" =>
               calls # <<>> /\ calls[Len(calls)].did = "panic")

C4_Witness ==
    /\ op = "Log"
    /\ pc = "panicked"
    /\ ml = <<"S1", "S2", "S1">>
    /\ Len(calls) = 2
    /\ calls[1].did # "panic"
    /\ raised = <<SinkPanic("S2")>>

\* C5: BenchmarkInfo calls each sink's BenchmarkInfo exactly once, in order,
\* with its own level, msg and f, at any level; it calls no sink's Log or
\* Fatal and never runs f itself, so f has run once per sink that ran it:
\* as often as there are sinks when each runs it, never with no sinks.
C5_BenchmarkInfoForwards ==
    op = "BenchmarkInfo" =>
        /\ InOrderVia("BenchmarkInfo")
        /\ \A k \in 1..Len(calls) : calls[k].arg = <<level, msg, "f">>
        /\ (pc \in {"after", "returned"} => Len(calls) = Len(ml))
        /\ fRuns = Cardinality({k \in 1..Len(calls) : calls[k].did = "ran"})
        /\ (pc = "returned" /\ (\A k \in 1..Len(calls) : calls[k].did = "ran")
               => fRuns = Len(ml))
        /\ (ml = <<>> => fRuns = 0 /\ calls = <<>>)
        /\ payload = given

C5_Witness ==
    /\ op = "BenchmarkInfo"
    /\ pc = "returned"
    /\ level \notin StdLevels
    /\ msg = "m2"
    /\ ml = <<"S2", "S1", "S2">>
    /\ fRuns = 3

\* C6: the dispatcher fills the known fields before the sinks see the
\* record: every sink's Log receives it with pid, time and host_name as the
\* process has them at dispatch, and with the caller's application or else
\* the program's invocation name.
C6_SinksSeeFinalizedRecord ==
    op \in {"Log", "Fatal"} =>
        \A k \in 1..Len(calls) :
            /\ calls[k].arg.PID = env.pid
            /\ calls[k].arg.Time = env.now
            /\ calls[k].arg.HostName = env.hostname
            /\ calls[k].arg.Application =
                   IF given.Application # "" THEN given.Application
                   ELSE env.args0

\* ------------------------------------------ level and record operations
\* The dispatcher's variables while the record and level operations run.
NoDispatch ==
    /\ ml = <<>>
    /\ pc = "idle"
    /\ level = TRACE
    /\ msg = "m1"
    /\ idx = 1
    /\ calls = <<>>
    /\ raised = <<>>
    /\ fRuns = 0

noDispatchVars == <<ml, pc, level, msg, idx, calls, raised, fRuns>>

InitLevel ==
    /\ NoDispatch
    /\ payload = ZeroPayload
    /\ given = ZeroPayload
    /\ env = [args0 |-> "prog", pid |-> 1, now |-> 1, hostname |-> "host"]
    /\ stack = <<>>
    /\ op = "none"
    /\ args \in Levels \X Levels
    /\ result = FALSE

\* args[1].LessSevereThan(args[2])
DoLessSevereThan ==
    /\ op' = "LessSevereThan"
    /\ result' = LessSevereThan(args[1], args[2])
    /\ UNCHANGED <<payload, given, env, stack, args, noDispatchVars>>

\* args[1].String()
DoString ==
    /\ op' = "String"
    /\ result' = LevelString(args[1])
    /\ UNCHANGED <<payload, given, env, stack, args, noDispatchVars>>

NextLevel == DoLessSevereThan \/ DoString

SpecLevel == InitLevel /\ [][NextLevel]_vars

Formats ==
    {[format |-> <<"m">>, vars |-> <<>>],
     [format |-> <<"%", "s", "%", "d">>, vars |-> <<(<<"x">>), 12>>]}

TagLists == SeqsUpTo({"a", "b", "c"}, MaxTags)

InitRecord ==
    /\ NoDispatch
    /\ payload \in
           {[NewLogPayload(lv, f.format, f.vars, callerStack)
                EXCEPT !.Application = app] :
                    lv \in {INFO, FATAL + MaxCustom}, f \in Formats,
                    app \in {"", "app"}}
    /\ given = payload
    /\ env \in Envs
    /\ stack = callerStack
    /\ op = "none"
    /\ args = <<>>
    /\ result = <<>>

\* payload.SetTags(tags...)
DoSetTags(tags) ==
    /\ op' = "SetTags"
    /\ args' = tags
    /\ given' = payload
    /\ payload' = SetTags(payload, tags)
    /\ UNCHANGED <<env, stack, result, noDispatchVars>>

\* payload.setKnownFields()
DoSetKnownFields ==
    /\ op' = "setKnownFields"
    /\ args' = <<>>
    /\ given' = payload
    /\ payload' = setKnownFields(payload, env)
    /\ UNCHANGED <<env, stack, result, noDispatchVars>>

NextRecord ==
    \/ \E tags \in TagLists : DoSetTags(tags)
    \/ DoSetKnownFields

SpecRecord == InitRecord /\ [][NextRecord]_vars

boom == <<"b", "o", "o", "m">>

fgo == <<"f", ".", "g", "o">>

Frames ==
    {[file |-> fgo, line |-> 10, fn |-> <<"g">>],
     [file |-> fgo, line |-> 20, fn |-> <<"h">>]}

descG ==
    <<"f", ".", "g", "o", ":", "1", "0", " ", "g", "(", ")">>

descH ==
    <<"f", ".", "g", "o", ":", "2", "0", " ", "h", "(", ")">>

\* Backtrace entries a caller may have stored itself.
Descriptors == {descG, descH}

genFrame == [file |-> fgo, line |-> 227, fn |-> <<"g", "S">>]

InitTrace ==
    /\ NoDispatch
    /\ payload \in
           {[NewLogPayload(FATAL, <<"%", "s">>, <<m>>, callerStack)
                EXCEPT !.Backtrace = bt] :
                    m \in {<<>>, boom}, bt \in SeqsUpTo(Descriptors, MaxFrames)}
    /\ given = payload
    /\ env = [args0 |-> "prog", pid |-> 1, now |-> 1, hostname |-> "host"]
    /\ stack \in {<<genFrame>> \o s : s \in SeqsUpTo(Frames, MaxDepth)}
    /\ op = "none"
    /\ args = <<>>
    /\ result = <<>>

\* payload.Backtrace = genStacktrace(), as a sink's Fatal is to do.
DoGenStacktrace ==
    /\ op' = "genStacktrace"
    /\ result' = genStacktrace(stack)
    /\ given' = payload
    /\ payload' = [payload EXCEPT !.Backtrace = genStacktrace(stack)]
    /\ UNCHANGED <<env, stack, args, noDispatchVars>>

\* payload.Exception()
DoException ==
    /\ op' = "Exception"
    /\ result' = Exception(payload)
    /\ given' = payload
    /\ UNCHANGED <<payload, env, stack, args, noDispatchVars>>

NextTrace == DoGenStacktrace \/ DoException

SpecTrace == InitTrace /\ [][NextTrace]_vars

\* ------------------------------------------- level and record properties
\* The place of a named level in the LogLevels list.
Position(lv) == CHOOSE k \in 1..Len(LogLevels) : LogLevels[k] = lv

StdLess == {pr \in StdLevels \X StdLevels : LessSevereThan(pr[1], pr[2])}

\* C9: A.LessSevereThan(B) holds iff A's ordinal is below B's, for named
\* and custom levels alike; on the six named levels it is the strict total
\* order TRACE < DEBUG < INFO < WARN < ERROR < FATAL: 15 pairs, irreflexive,
\* and exactly one direction holds between two different levels.
C9_LessSevereThanIsOrdinalOrder ==
    /\ op = "LessSevereThan" =>
           /\ result = (args[1] < args[2])
           /\ (args[1] \in StdLevels /\ args[2] \in StdLevels =>
                   result = (Position(args[1]) < Position(args[2])))
           /\ (args[1] = args[2] => result = FALSE)
    /\ Cardinality(StdLess) = 15
    /\ \A a \in Levels : ~LessSevereThan(a, a)
    /\ \A a, b \in Levels :
           a # b => (LessSevereThan(a, b) = ~LessSevereThan(b, a))
    /\ \A k \in 1..(Len(LogLevels) - 1) :
           LessSevereThan(LogLevels[k], LogLevels[k + 1])

C9_Witness ==
    /\ op = "LessSevereThan"
    /\ args[1] = WARN
    /\ args[2] \notin StdLevels
    /\ result = TRUE

\* C8: SetTags replaces the tags wholesale: after the call they are exactly
\* its arguments, in order, whatever they were before, and every other
\* field is as it was.
C8_SetTagsReplaces ==
    op = "SetTags" =>
        /\ payload.Tags = args
        /\ \A f \in PayloadFields \ {"Tags"} : payload[f] = given[f]

C8_Witness ==
    /\ op = "SetTags"
    /\ given.Tags = <<"a", "b">>
    /\ args = <<"c">>
    /\ payload.Tags = <<"c">>
    /\ payload.PID # 0

\* The entries of a backtrace, one per line: a line break between each two.
RECURSIVE OnePerLine(_)
OnePerLine(bt) ==
    IF bt = <<>> THEN <<>>
    ELSE IF Len(bt) = 1 THEN bt[1]
    ELSE OnePerLine(SubSeq(bt, 1, Len(bt) - 1)) \o <<NL>> \o bt[Len(bt)]

boomRendered ==
    <<"b", "o", "o", "m", " ", "-", "-", " ", "p", "a", "n", "i", "c",
      ":", " ", "b", "o", "o", "m", NL, "f", ".", "g", "o", ":", "1",
      "0", " ", "g", "(", ")", NL, "f", ".", "g", "o", ":", "2", "0",
      " ", "h", "(", ")">>

\* C7: Exception() is message, " -- panic: ", message, a line break, then
\* the backtrace entries with one line break between each two and nothing
\* after the last; the record is left as it was.
C7_ExceptionRendering ==
    /\ op = "Exception" =>
           /\ result = payload.Message
                           \o <<" ", "-", "-", " ", "p", "a", "n", "i", "c", ":", " ">>
                           \o payload.Message \o <<NL>>
                           \o OnePerLine(payload.Backtrace)
           /\ (payload.Backtrace = <<>> => result[Len(result)] = NL)
           /\ (payload.Message = boom /\ payload.Backtrace = <<descG, descH>>
                   => result = boomRendered)
           /\ payload = given

C7_Witness ==
    /\ op = "Exception"
    /\ payload.Message = boom
    /\ payload.Backtrace = <<descG, descH>>
    /\ result = boomRendered

Descriptor(fr) ==
    fr.file \o <<":">> \o Itoa(fr.line) \o <<" ">> \o fr.fn \o <<"(", ")">>

Chars(str) == {str[j] : j \in 1..Len(str)}

\* C10: the stack walk yields one descriptor per frame above itself, each
\* exactly file:line functionName() with no line break in it, so Exception()
\* shows the frames one per line with no empty line between or after them.
C10_OneLinePerFrame ==
    /\ op = "genStacktrace" =>
           /\ Len(result) = Len(stack) - 1
           /\ \A k \in 1..Len(result) :
                  /\ result[k] = Descriptor(stack[k + 1])
                  /\ NL \notin Chars(result[k])
    /\ (op = "Exception" /\ payload.Backtrace = genStacktrace(stack)
            /\ payload.Backtrace # <<>>) =>
           /\ result[Len(result)] # NL
           /\ \A j \in 1..(Len(result) - 1) :
                  ~(result[j] = NL /\ result[j + 1] = NL)

====
